---- MODULE Spec2Model ----
(***************************************************************************)
(* A model of the CPU rasterizer of chapter2 (src/chapter2/src/             *)
(* rasterization.rs): Rasterization::new, project_world_to_raster,         *)
(* edge_function, render and update; and of State::resize with the window  *)
(* events that call it (src/chapter2/src/state.rs, main.rs).               *)
(*                                                                         *)
(* The code computes in f32.  The model carries f32 values as IEEE-754     *)
(* binary32 numbers with round-to-nearest-even: a finite value is a signed *)
(* 24-bit significand m and an exponent e (value m * 2^e), kept in a       *)
(* canonical form so that equal values are equal records.  Infinities and  *)
(* NaN are values of their own.  The sign of zero is not kept (the code    *)
(* only ever divides by zeros that are +0.0, and comparisons do not see    *)
(* the sign), and the exponent range is not bounded (no value of the       *)
(* explored inputs comes near f32's overflow or underflow).                *)
(***************************************************************************)
EXTENDS Integers, Sequences, FiniteSets, TLC

VARIABLES
  raster,     \* the Rasterization
  frame,      \* what the last render() returned, NoFrame before the first
  lastOp,     \* the last call made: "new", "render", "update", "project", "edge"
  renders,    \* the number of render() calls made
  projection, \* the last call of project_world_to_raster and its result
  edge,       \* the last call of edge_function and its result
  state,      \* the State of the window: its size and its surface config
  event,      \* the last WindowEvent handled
  exiting     \* whether event_loop.exit() was called

\* the variables of the window
window == <<state, event, exiting>>

vars == <<raster, frame, lastOp, renders, projection, edge, window>>

(***************************************************************************)
(* f32                                                                     *)
(***************************************************************************)

\* significand width of f32
MantBits == 24

Pow2(k) == 2 ^ k

Abs(n) == IF n < 0 THEN -n ELSE n

Sgn(n) == IF n < 0 THEN -1 ELSE IF n = 0 THEN 0 ELSE 1

\* number of bits of n, 0 < n < 2^31
RECURSIVE BitLen(_)
BitLen(n) ==
  IF n >= 65536 THEN 16 + BitLen(n \div 65536)
  ELSE IF n >= 256 THEN 8 + BitLen(n \div 256)
  ELSE IF n >= 16 THEN 4 + BitLen(n \div 16)
  ELSE IF n >= 4 THEN 2 + BitLen(n \div 4)
  ELSE IF n >= 2 THEN 2 ELSE 1

Fin(m, e) == [k |-> "fin", m |-> m, e |-> e]

FZero == Fin(0, 0)

FInf(s) == [k |-> "inf", m |-> s, e |-> 0]

FNaN == [k |-> "nan", m |-> 0, e |-> 0]

IsNaN(a) == a.k = "nan"

IsInf(a) == a.k = "inf"

\* s * n * 2^e rounded to nearest, ties to even; 0 <= n < 2^31.  When n
\* carries a sticky bit in its lowest place it has at least MantBits + 2 bits.
RoundPack(s, n, e) ==
  IF n = 0 THEN FZero
  ELSE LET L == BitLen(n) IN
    IF L <= MantBits
    THEN Fin(s * n * Pow2(MantBits - L), e - (MantBits - L))
    ELSE LET sh   == L - MantBits
             q    == n \div Pow2(sh)
             r    == n % Pow2(sh)
             half == Pow2(sh - 1)
             up   == r > half \/ (r = half /\ q % 2 = 1)
             q1   == IF up THEN q + 1 ELSE q
         IN IF q1 = Pow2(MantBits)
            THEN Fin(s * Pow2(MantBits - 1), e + sh + 1)
            ELSE Fin(s * q1, e + sh)

\* n >> d with the bits shifted out or-ed into the lowest bit
ShiftRightJam(n, d) ==
  IF d = 0 THEN n
  ELSE IF d >= 31 THEN (IF n = 0 THEN 0 ELSE 1)
  ELSE LET q == n \div Pow2(d)
       IN IF n % Pow2(d) = 0 THEN q
          ELSE IF q % 2 = 1 THEN q ELSE q + 1

\* a + b of two finite values, with 5 guard bits
AddFin(a, b) ==
  IF a.m = 0 THEN b
  ELSE IF b.m = 0 THEN a
  ELSE LET hi == IF a.e >= b.e THEN a ELSE b
           lo == IF a.e >= b.e THEN b ELSE a
           d  == hi.e - lo.e
           A  == Abs(hi.m) * 32
           B  == ShiftRightJam(Abs(lo.m) * 32, d)
           sa == Sgn(hi.m)
           sb == Sgn(lo.m)
       IN IF sa = sb THEN RoundPack(sa, A + B, lo.e + d - 5)
          ELSE IF A >= B THEN RoundPack(sa, A - B, lo.e + d - 5)
          ELSE RoundPack(sb, B - A, lo.e + d - 5)

FNeg(a) == IF IsNaN(a) THEN a ELSE [a EXCEPT !.m = -a.m]

\* a + b
FAdd(a, b) ==
  IF IsNaN(a) \/ IsNaN(b) THEN FNaN
  ELSE IF IsInf(a) /\ IsInf(b) THEN (IF a.m = b.m THEN a ELSE FNaN)
  ELSE IF IsInf(a) THEN a
  ELSE IF IsInf(b) THEN b
  ELSE AddFin(a, b)

\* a - b
FSub(a, b) == FAdd(a, FNeg(b))

\* a * b of two finite non-zero values, formed from 12-bit halves
MulFin(a, b) ==
  LET H    == Pow2(12)
      ma   == Abs(a.m)
      mb   == Abs(b.m)
      ah   == ma \div H
      al   == ma % H
      bh   == mb \div H
      bl   == mb % H
      mid  == ah * bl + al * bh
      lo   == al * bl + (mid % H) * H
      low  == lo % Pow2(MantBits)
      hi   == ah * bh + mid \div H + lo \div Pow2(MantBits)
      keep == Pow2(MantBits - 5)
      n    == hi * 32 + low \div keep
      jam  == IF low % keep = 0 THEN n ELSE IF n % 2 = 1 THEN n ELSE n + 1
  IN RoundPack(Sgn(a.m) * Sgn(b.m), jam, a.e + b.e + MantBits - 5)

\* a * b
FMul(a, b) ==
  IF IsNaN(a) \/ IsNaN(b) THEN FNaN
  ELSE IF IsInf(a) \/ IsInf(b)
       THEN (IF a.m = 0 \/ b.m = 0 THEN FNaN ELSE FInf(Sgn(a.m) * Sgn(b.m)))
  ELSE IF a.m = 0 \/ b.m = 0 THEN FZero
  ELSE MulFin(a, b)

\* <<q, r>> after k more steps, of 7 bits each, of the long division by d
RECURSIVE DivSteps(_, _, _, _)
DivSteps(q, r, d, k) ==
  IF k = 0 THEN <<q, r>>
  ELSE LET r2 == r * 128
       IN DivSteps(q * 128 + r2 \div d, r2 % d, d, k - 1)

\* a / b of two finite non-zero values
DivFin(a, b) ==
  LET ma == Abs(a.m)
      mb == Abs(b.m)
      qr == DivSteps(ma \div mb, ma % mb, mb, 4)
      n  == 2 * qr[1] + (IF qr[2] = 0 THEN 0 ELSE 1)
  IN RoundPack(Sgn(a.m) * Sgn(b.m), n, a.e - b.e - 29)

\* a / b; a zero divisor is +0.0
FDiv(a, b) ==
  IF IsNaN(a) \/ IsNaN(b) THEN FNaN
  ELSE IF IsInf(a) THEN (IF IsInf(b) THEN FNaN
                         ELSE FInf(a.m * (IF b.m < 0 THEN -1 ELSE 1)))
  ELSE IF IsInf(b) THEN FZero
  ELSE IF b.m = 0 THEN (IF a.m = 0 THEN FNaN ELSE FInf(Sgn(a.m)))
  ELSE IF a.m = 0 THEN FZero
  ELSE DivFin(a, b)

\* a < b
FLt(a, b) ==
  IF IsNaN(a) \/ IsNaN(b) THEN FALSE
  ELSE IF IsInf(a) THEN a.m < 0 /\ ~(IsInf(b) /\ b.m < 0)
  ELSE IF IsInf(b) THEN b.m > 0
  ELSE LET sa == Sgn(a.m)
           sb == Sgn(b.m)
       IN IF sa # sb THEN sa < sb
          ELSE IF sa = 0 THEN FALSE
          ELSE IF a.e = b.e THEN a.m < b.m
          ELSE IF sa > 0 THEN a.e < b.e ELSE a.e > b.e

\* a == b
FEq(a, b) == ~IsNaN(a) /\ ~IsNaN(b) /\ a = b

\* a >= b
FGe(a, b) == FLt(b, a) \/ FEq(a, b)

\* a <= b
FLe(a, b) == FLt(a, b) \/ FEq(a, b)

\* f32::min: the other operand when one is NaN
FMin(a, b) == IF IsNaN(a) THEN b ELSE IF IsNaN(b) THEN a ELSE IF FLt(b, a) THEN b ELSE a

\* f32::max
FMax(a, b) == IF IsNaN(a) THEN b ELSE IF IsNaN(b) THEN a ELSE IF FLt(a, b) THEN b ELSE a

I32Max == 2147483647

\* `i as f32`, -2^31 < i < 2^31
ToF32(i) == RoundPack(Sgn(i), Abs(i), 0)

\* `a as i32`: truncation toward zero, saturating, NaN to 0
ToI32(a) ==
  IF IsNaN(a) THEN 0
  ELSE IF IsInf(a) THEN (IF a.m > 0 THEN I32Max ELSE -I32Max - 1)
  ELSE IF a.m = 0 THEN 0
  ELSE IF a.e >= 8 THEN (IF a.m > 0 THEN I32Max ELSE -I32Max - 1)
  ELSE IF a.e >= 0 THEN a.m * Pow2(a.e)
  ELSE IF a.e <= -MantBits THEN 0
  ELSE Sgn(a.m) * (Abs(a.m) \div Pow2(-a.e))

\* the f32 value n * 2^e of a literal of the source
Lit(n, e) == RoundPack(Sgn(n), Abs(n), e)

F0 == FZero

F1 == Lit(1, 0)

F2 == Lit(2, 0)

F3 == Lit(3, 0)

FHalf == Lit(1, -1)

(***************************************************************************)
(* Rasterization                                                           *)
(***************************************************************************)

Vec2(vx, vy) == [x |-> vx, y |-> vy]

Vec3(vx, vy, vz) == [x |-> vx, y |-> vy, z |-> vz]

\* Vec3 * f32
Vec3Scale(v, a) == Vec3(FMul(v.x, a), FMul(v.y, a), FMul(v.z, a))

\* Vec3 + Vec3
Vec3Add(a, b) == Vec3(FAdd(a.x, b.x), FAdd(a.y, b.y), FAdd(a.z, b.z))

MyVertex(p, c) == [pos |-> p, color |-> c]

MyTriangle(a, b, c) == [v0 |-> a, v1 |-> b, v2 |-> c]

Red == Vec3(F1, F0, F0)

Green == Vec3(F0, F1, F0)

Blue == Vec3(F0, F0, F1)

\* new()'s triangle with v1 and v2 exchanged: the other winding
DefaultTriangleReversed ==
  MyTriangle(MyVertex(Vec3(F0, F0, F0), Red),
             MyVertex(Vec3(F0, F1, F0), Blue),
             MyVertex(Vec3(F1, F0, F0), Green))

\* the triangle Rasterization::new builds
DefaultTriangle ==
  MyTriangle(MyVertex(Vec3(F0, F0, F0), Red),
             MyVertex(Vec3(F1, F0, F0), Green),
             MyVertex(Vec3(F0, F1, F0), Blue))

\* Rasterization::new(width, height)
New(width, height) ==
  [width |-> width, height |-> height, triangle |-> DefaultTriangle]

\* the projection without the flip of the y axis
ProjectNoFlip(self, point) ==
  LET aspect    == FDiv(ToF32(self.width), ToF32(self.height))
      point_ndc == Vec2(FDiv(point.x, aspect), point.y)
      x_scale   == FDiv(F2, ToF32(self.width))
      y_scale   == FDiv(F2, ToF32(self.height))
  IN Vec2(FSub(FDiv(FAdd(point_ndc.x, F1), x_scale), FHalf),
          FSub(FDiv(FAdd(point_ndc.y, F1), y_scale), FHalf))

\* project_world_to_raster(&self, point)
ProjectWorldToRaster(self, point) ==
  LET aspect    == FDiv(ToF32(self.width), ToF32(self.height))
      point_ndc == Vec2(FDiv(point.x, aspect), point.y)
      x_scale   == FDiv(F2, ToF32(self.width))
      y_scale   == FDiv(F2, ToF32(self.height))
  IN Vec2(FSub(FDiv(FAdd(point_ndc.x, F1), x_scale), FHalf),
          FSub(FDiv(FSub(F1, point_ndc.y), y_scale), FHalf))

\* the edge function with the two products exchanged
EdgeFunctionSwapped(v0, v1, point) ==
  FSub(FMul(FSub(point.y, v0.y), FSub(v1.x, v0.x)),
       FMul(FSub(point.x, v0.x), FSub(v1.y, v0.y)))

\* edge_function(&self, v0, v1, point)
EdgeFunction(v0, v1, point) ==
  FSub(FMul(FSub(point.x, v0.x), FSub(v1.y, v0.y)),
       FMul(FSub(point.y, v0.y), FSub(v1.x, v0.x)))

\* the three vertices projected to raster space (render, lines 73-75)
Projected(self) ==
  [v0 |-> ProjectWorldToRaster(self, self.triangle.v0.pos),
   v1 |-> ProjectWorldToRaster(self, self.triangle.v1.pos),
   v2 |-> ProjectWorldToRaster(self, self.triangle.v2.pos)]

\* the bounding box without its clamp to the left and top borders
BoundingBoxUnclamped(self, v) ==
  [x_min |-> ToI32(FMin(FMin(v.v0.x, v.v1.x), v.v2.x)),
   x_max |-> ToI32(FMin(FMax(FMax(v.v0.x, v.v1.x), v.v2.x),
                        FSub(ToF32(self.width), F1))),
   y_min |-> ToI32(FMin(FMin(v.v0.y, v.v1.y), v.v2.y)),
   y_max |-> ToI32(FMin(FMax(FMax(v.v0.y, v.v1.y), v.v2.y),
                        FSub(ToF32(self.height), F1)))]

\* the bounding box of render (lines 78-81)
BoundingBox(self, v) ==
  [x_min |-> ToI32(FMax(FMin(FMin(v.v0.x, v.v1.x), v.v2.x), F0)),
   x_max |-> ToI32(FMin(FMax(FMax(v.v0.x, v.v1.x), v.v2.x),
                        FSub(ToF32(self.width), F1))),
   y_min |-> ToI32(FMax(FMin(FMin(v.v0.y, v.v1.y), v.v2.y), F0)),
   y_max |-> ToI32(FMin(FMax(FMax(v.v0.y, v.v1.y), v.v2.y),
                        FSub(ToF32(self.height), F1)))]

\* the three edge-function values of pixel (i, j) (lines 86-91)
Alphas(v, i, j) ==
  LET point == Vec2(ToF32(i), ToF32(j))
  IN [a0 |-> EdgeFunction(v.v1, v.v2, point),
      a1 |-> EdgeFunction(v.v2, v.v0, point),
      a2 |-> EdgeFunction(v.v0, v.v1, point)]

\* the inside test with the boundary left out
InsideStrict(a) == FLt(F0, a.a0) /\ FLt(F0, a.a1) /\ FLt(F0, a.a2)

\* the inside test (line 94)
Inside(a) == FGe(a.a0, F0) /\ FGe(a.a1, F0) /\ FGe(a.a2, F0)

\* the weights divided by total (line 99)
Normalized(a, total) ==
  [a0 |-> FDiv(a.a0, total), a1 |-> FDiv(a.a1, total), a2 |-> FDiv(a.a2, total),
   divByZero |-> FEq(total, F0)]

\* the weights of the degenerate case (line 101)
Uniform ==
  [a0 |-> FDiv(F1, F3), a1 |-> FDiv(F1, F3), a2 |-> FDiv(F1, F3),
   divByZero |-> FALSE]

\* a total that leaves out alpha2
TotalOfTwo(a) == FAdd(a.a0, a.a1)

\* alpha0 + alpha1 + alpha2 (line 96)
Total(a) == FAdd(FAdd(a.a0, a.a1), a.a2)

\* the weights left as the edge-function values
WeightsRaw(a) == [a0 |-> a.a0, a1 |-> a.a1, a2 |-> a.a2, divByZero |-> FALSE]

\* the weights divided by total whatever total is
WeightsUnguarded(a) == Normalized(a, Total(a))

\* the normalised weights (lines 96-102)
Weights(a) ==
  IF ~FEq(Total(a), F0) THEN Normalized(a, Total(a)) ELSE Uniform

\* the interpolated colour (lines 105-107)
Color(self, w) ==
  Vec3Add(Vec3Add(Vec3Scale(self.triangle.v0.color, w.a0),
                  Vec3Scale(self.triangle.v1.color, w.a1)),
          Vec3Scale(self.triangle.v2.color, w.a2))

\* the index written for pixel (i, j) (line 109)
PixelIndex(self, i, j) == i + j * self.width

\* a buffer one pixel short
NewPixelsShort(n) == [len |-> n - 1, zero |-> <<F0, F0, F0, F0>>, written |-> <<>>]

\* vec![[0.0; 4]; n] (line 70): n pixels, all of them the value zero. The
\* buffer is kept as its length, its initial pixel and the pixels written
\* since, by index from 0, so that a buffer of millions of pixels is as small
\* as one of four
NewPixels(n) == [len |-> n, zero |-> <<F0, F0, F0, F0>>, written |-> <<>>]

\* buffer.len()
VecLen(buffer) == buffer.len

\* buffer[idx], for 0 <= idx < buffer.len()
VecGet(buffer, idx) ==
  IF idx \in DOMAIN buffer.written THEN buffer.written[idx] ELSE buffer.zero

\* buffer[idx] = pixel, for 0 <= idx < buffer.len() (line 110)
VecSet(buffer, idx, pixel) ==
  [buffer EXCEPT !.written = (idx :> pixel) @@ @]

\* one iteration of the loop body on the state st of render (lines 86-111):
\* st.pixels is the buffer, st.panicked whether an index was out of bounds,
\* st.divByZero whether a weight was divided by a zero total
Shade(self, v, st, i, j) ==
  LET a == Alphas(v, i, j)
  IN IF st.panicked \/ ~Inside(a) THEN st
     ELSE LET w     == Weights(a)
              color == Color(self, w)
              idx   == PixelIndex(self, i, j)
          IN IF idx < 0 \/ idx >= VecLen(st.pixels)
             THEN [st EXCEPT !.panicked = TRUE]
             ELSE [pixels    |-> VecSet(st.pixels, idx,
                                        <<color.x, color.y, color.z, F1>>),
                   panicked  |-> FALSE,
                   divByZero |-> st.divByZero \/ w.divByZero,
                   visited   |-> st.visited]

\* for i in i..=x_max (line 85)
RECURSIVE ColLoop(_, _, _, _, _, _)
ColLoop(self, v, st, j, i, x_max) ==
  IF i > x_max THEN st
  ELSE ColLoop(self, v,
               [Shade(self, v, st, i, j) EXCEPT !.visited = @ + 1],
               j, i + 1, x_max)

\* for j in j..=y_max (line 84)
RECURSIVE RowLoop(_, _, _, _, _)
RowLoop(self, v, st, bb, j) ==
  IF j > bb.y_max THEN st
  ELSE RowLoop(self, v, ColLoop(self, v, st, j, bb.x_min, bb.x_max), bb, j + 1)

\* the state of render before its loop (line 70)
Start(self) ==
  [pixels    |-> NewPixels(self.width * self.height),
   panicked  |-> FALSE,
   divByZero |-> FALSE,
   visited   |-> 0]

\* a render that turns the vertex colours by one vertex on every other frame
RenderSpin(s) ==
  LET t == s.triangle
      r == IF renders % 2 = 0 THEN s
           ELSE [s EXCEPT !.triangle =
                   MyTriangle(MyVertex(t.v0.pos, t.v1.color),
                              MyVertex(t.v1.pos, t.v2.color),
                              MyVertex(t.v2.pos, t.v0.color))]
      v == Projected(r)
  IN RowLoop(r, v, Start(r), BoundingBox(r, v), BoundingBox(r, v).y_min)

\* render(&self): the returned buffer, with whether the call panicked, whether
\* it divided by a zero total and how many pixels the loop visited
Render(self) ==
  LET v  == Projected(self)
      bb == BoundingBox(self, v)
  IN RowLoop(self, v, Start(self), bb, bb.y_min)

(***************************************************************************)
(* State (chapter2/src/state.rs, and the same in chapter1/src/state.rs):   *)
(* its size and the width and height of its surface configuration           *)
(***************************************************************************)

\* winit::dpi::PhysicalSize<u32>
PhysicalSize(width, height) == [width |-> width, height |-> height]

\* State::new(window), size being window.inner_size()
StateNew(size) ==
  [size |-> size, config |-> [width |-> size.width, height |-> size.height]]

\* a resize that does not look at new_size
ResizeAlways(self, new_size) ==
  [size   |-> new_size,
   config |-> [self.config EXCEPT !.width = new_size.width,
                                  !.height = new_size.height]]

\* resize(&mut self, new_size): what the State is after the call
Resize(self, new_size) ==
  IF new_size.width > 0 /\ new_size.height > 0
  THEN [size   |-> new_size,
        config |-> [self.config EXCEPT !.width = new_size.width,
                                       !.height = new_size.height]]
  ELSE self

\* no window
NoState == StateNew(PhysicalSize(0, 0))

NoEvent ==
  [kind |-> "none", size |-> PhysicalSize(0, 0), consumed |-> FALSE, result |-> "none"]

(***************************************************************************)
(* The program                                                             *)
(***************************************************************************)

\* the largest width and height explored
MaxDim == 2

\* the largest number of render() calls explored
MaxRenders == 2

\* the canvas of tests::test_render_output
TestDim == 4

\* the viewport of the other tests
TestWidth == 800

TestHeight == 600

Dims == {<<w, h>> : w \in 0..MaxDim, h \in 0..MaxDim} \cup {<<TestDim, TestDim>>}

\* world-space positions of the explored triangles: the three of new()'s
\* triangle, one that projects left of every square viewport by less than a
\* pixel, and one that differs from the first in z only
WorldPoints ==
  {Vec3(F0, F0, F0), Vec3(F1, F0, F0), Vec3(F0, F1, F0),
   Vec3(Lit(-9, -3), F0, F0), Vec3(F0, F0, F1)}

\* render() reads whatever triangle self holds: the explored triangles are
\* new()'s with its three positions replaced (new()'s own among them)
Triangles ==
  {MyTriangle(MyVertex(p0, Red), MyVertex(p1, Green), MyVertex(p2, Blue)) :
     p0 \in WorldPoints, p1 \in WorldPoints, p2 \in WorldPoints}

\* the largest numerator of a coordinate, in halves, given to the pure functions
MaxCoord == 2

Coords == {Lit(n, -1) : n \in -MaxCoord..MaxCoord}

\* the points given to project_world_to_raster
ProjPoints == {Vec3(px, py, pz) : px \in Coords, py \in Coords, pz \in {F0, F1}}

\* 0.1f32 of tests::test_edge_function
FTenth == Lit(13421773, -27)

\* the points given to edge_function: a grid, and those of the test
GridPoints == {Vec2(px, py) : px \in Coords, py \in Coords}

EdgePoints == GridPoints \cup {Vec2(FHalf, FNeg(FTenth)), Vec2(FHalf, FTenth)}

NoFrame == [pixels |-> NewPixels(0), panicked |-> FALSE, divByZero |-> FALSE, visited |-> 0]

NoProjection == [called |-> FALSE, point |-> Vec3(F0, F0, F0), result |-> Vec2(F0, F0)]

NoEdge ==
  [called |-> FALSE, v0 |-> Vec2(F0, F0), v1 |-> Vec2(F0, F0),
   point |-> Vec2(F0, F0), value |-> F0]

Constructed(s) ==
  /\ raster = s
  /\ frame = NoFrame
  /\ lastOp = "new"
  /\ renders = 0
  /\ projection = NoProjection
  /\ edge = NoEdge
  /\ state = NoState
  /\ event = NoEvent
  /\ exiting = FALSE

\* new(width, height), and the same with the positions of its triangle replaced
Init ==
  \E d \in Dims : \E t \in {New(d[1], d[2]).triangle} \cup Triangles :
    Constructed([New(d[1], d[2]) EXCEPT !.triangle = t])

\* an update() that animates: it swaps two vertices of the triangle
UpdateSpin(s) ==
  [s EXCEPT !.triangle = MyTriangle(s.triangle.v0, s.triangle.v2, s.triangle.v1)]

\* update(&mut self): what raster is after the call
UpdateSelf(s) == s

\* a call of render()
RenderCall ==
  /\ renders < MaxRenders
  /\ frame' = Render(raster)
  /\ lastOp' = "render"
  /\ renders' = renders + 1
  /\ UNCHANGED <<raster, projection, edge, window>>

\* a call of update()
UpdateCall ==
  /\ raster' = UpdateSelf(raster)
  /\ lastOp' = "update"
  /\ UNCHANGED <<frame, renders, projection, edge, window>>

Next == RenderCall \/ UpdateCall

Spec == Init /\ [][Next]_vars

(***************************************************************************)
(* project_world_to_raster as a function of its inputs                     *)
(***************************************************************************)

InitProject ==
  \E d \in Dims \cup {<<TestWidth, TestHeight>>} : Constructed(New(d[1], d[2]))

\* a call of project_world_to_raster(point); the function takes &self and
\* returns a value, so one call from each state after construction shows all
ProjectCall ==
  /\ ~projection.called
  /\ \E point \in ProjPoints :
       projection' = [called |-> TRUE, point |-> point,
                      result |-> ProjectWorldToRaster(raster, point)]
  /\ lastOp' = "project"
  /\ UNCHANGED <<raster, frame, renders, edge, window>>

NextProject == ProjectCall

SpecProject == InitProject /\ [][NextProject]_vars

(***************************************************************************)
(* edge_function as a function of its inputs                               *)
(***************************************************************************)

InitEdge == Constructed(New(TestWidth, TestHeight))

\* a call of edge_function(v0, v1, point); as for ProjectCall, one call
EdgeCall ==
  /\ ~edge.called
  /\ \E v0 \in EdgePoints, v1 \in EdgePoints, point \in EdgePoints :
       edge' = [called |-> TRUE, v0 |-> v0, v1 |-> v1, point |-> point,
                value |-> EdgeFunction(v0, v1, point)]
  /\ lastOp' = "edge"
  /\ UNCHANGED <<raster, frame, renders, projection, window>>

NextEdge == EdgeCall

SpecEdge == InitEdge /\ [][NextEdge]_vars

\* the widths above 2^24 explored: 2^24 + 0 .. 2^24 + MaxWide, where
\* `self.width as f32` rounds
MaxWide == 3

WideDims == {<<Pow2(MantBits) + k, h>> : k \in 0..MaxWide, h \in {1, 2}}

\* world x coordinates that project to the right border of such a viewport
WideXs == {Fin(Pow2(MantBits - 1) + k, e) : k \in 0..MaxWide, e \in {0, 1}}

\* new()'s triangle, and triangles whose three vertices are one point
WideTriangles ==
  {DefaultTriangle} \cup
  {MyTriangle(MyVertex(Vec3(x, F0, F0), Red),
              MyVertex(Vec3(x, F0, F0), Green),
              MyVertex(Vec3(x, F0, F0), Blue)) : x \in WideXs}

\* new(width, height) for widths above 2^24
InitWide ==
  \E d \in WideDims : \E t \in WideTriangles :
    Constructed([New(d[1], d[2]) EXCEPT !.triangle = t])

SpecWide == InitWide /\ [][Next]_vars

\* the largest width and height of the viewports whose coordinates are not
\* all halves, so that the f32 operations round
MaxView == 7

ViewDims == {<<w, h>> : w \in 1..MaxView, h \in 1..MaxView}

\* three vertices on one line, (0.5, 0.5), (-1, 1) and (2, 0)
CollinearTriangle ==
  MyTriangle(MyVertex(Vec3(FHalf, FHalf, F0), Red),
             MyVertex(Vec3(FNeg(F1), F1, F0), Green),
             MyVertex(Vec3(F2, F0, F0), Blue))

\* new(width, height), with new()'s triangle or the collinear one
InitRound ==
  \E d \in ViewDims : \E t \in {DefaultTriangle, CollinearTriangle} :
    Constructed([New(d[1], d[2]) EXCEPT !.triangle = t])

SpecRound == InitRound /\ [][Next]_vars

\* the largest width and height of a window
MaxSize == 2

Sizes == {PhysicalSize(w, h) : w \in 0..MaxSize, h \in 0..MaxSize}

\* what state.render(window) returns
RenderResults == {"Ok", "Lost", "OutOfMemory", "Timeout"}

\* resumed(): the window is created and State::new(window) made
InitResize ==
  /\ raster = New(TestDim, TestDim)
  /\ frame = NoFrame
  /\ lastOp = "new"
  /\ renders = 0
  /\ projection = NoProjection
  /\ edge = NoEdge
  /\ \E size \in Sizes : state = StateNew(size)
  /\ event = NoEvent
  /\ exiting = FALSE

\* window_event with WindowEvent::Resized(physical_size); consumed is whether
\* egui took the event (chapter2 only)
Resized ==
  /\ ~exiting
  /\ \E physical_size \in Sizes : \E consumed \in BOOLEAN :
       /\ event' = [kind |-> "Resized", size |-> physical_size,
                    consumed |-> consumed, result |-> "none"]
       /\ state' = IF consumed THEN state ELSE Resize(state, physical_size)
  /\ UNCHANGED <<raster, frame, lastOp, renders, projection, edge, exiting>>

\* window_event with WindowEvent::RedrawRequested: state.render(window), and
\* on SurfaceError::Lost state.resize(state.size), on OutOfMemory exit
RedrawRequested ==
  /\ ~exiting
  /\ \E result \in RenderResults : \E consumed \in BOOLEAN :
       /\ event' = [kind |-> "RedrawRequested", size |-> state.size,
                    consumed |-> consumed,
                    result |-> IF consumed THEN "none" ELSE result]
       /\ state' = IF ~consumed /\ result = "Lost"
                   THEN Resize(state, state.size) ELSE state
       /\ exiting' = (~consumed /\ result = "OutOfMemory")
  /\ UNCHANGED <<raster, frame, lastOp, renders, projection, edge>>

\* window_event with WindowEvent::CloseRequested
CloseRequested ==
  /\ ~exiting
  /\ \E consumed \in BOOLEAN :
       /\ event' = [kind |-> "CloseRequested", size |-> state.size,
                    consumed |-> consumed, result |-> "none"]
       /\ exiting' = ~consumed
  /\ UNCHANGED <<raster, frame, lastOp, renders, projection, edge, state>>

\* window_event with any other WindowEvent (KeyboardInput prints the key)
OtherEvent ==
  /\ ~exiting
  /\ \E consumed \in BOOLEAN :
       event' = [kind |-> "Other", size |-> state.size,
                 consumed |-> consumed, result |-> "none"]
  /\ UNCHANGED <<raster, frame, lastOp, renders, projection, edge, state, exiting>>

NextResize == Resized \/ RedrawRequested \/ CloseRequested \/ OtherEvent

SpecResize == InitResize /\ [][NextResize]_vars

(***************************************************************************)
(* The claims about render()                                               *)
(***************************************************************************)

Zero4 == <<F0, F0, F0, F0>>

\* the pixel of the returned buffer at column i, row j
PixelAt(i, j) == VecGet(frame.pixels, i + j * raster.width)

Cols == 0..(raster.width - 1)

Rows == 0..(raster.height - 1)

PositiveViewport == raster.width > 0 /\ raster.height > 0

\* (i, j) lies in the clamped bounding box of the projected triangle
InBox(i, j) ==
  LET bb == BoundingBox(raster, Projected(raster))
  IN bb.x_min <= i /\ i <= bb.x_max /\ bb.y_min <= j /\ j <= bb.y_max

\* the three edge-function values at the sample point (i, j) are all >= 0
AllEdgesNonNegative(i, j) ==
  LET v     == Projected(raster)
      point == Vec2(ToF32(i), ToF32(j))
  IN /\ FGe(EdgeFunction(v.v1, v.v2, point), F0)
     /\ FGe(EdgeFunction(v.v2, v.v0, point), F0)
     /\ FGe(EdgeFunction(v.v0, v.v1, point), F0)

Covered(i, j) == InBox(i, j) /\ AllEdgesNonNegative(i, j)

InUnit(c) == FGe(c, F0) /\ FLe(c, F1)

\* C3: R, G and B of every returned pixel lie in [0,1]; A is exactly 1.0 for
\* a covered pixel and exactly 0.0 for an uncovered one
C3_ChannelBounds ==
  (renders > 0 /\ ~frame.panicked) =>
    \A i \in Cols : \A j \in Rows :
      LET px == PixelAt(i, j)
      IN /\ InUnit(px[1]) /\ InUnit(px[2]) /\ InUnit(px[3])
         /\ px[4] = (IF Covered(i, j) THEN F1 ELSE F0)

\* a frame with a covered pixel whose three colour channels are strictly
\* between 0 and 1, and an uncovered pixel
C3_Witness ==
  /\ renders > 0
  /\ \E i \in Cols : \E j \in Rows :
       /\ Covered(i, j)
       /\ \A c \in 1..3 : FLt(F0, PixelAt(i, j)[c]) /\ FLt(PixelAt(i, j)[c], F1)
  /\ \E i \in Cols : \E j \in Rows : ~Covered(i, j) /\ PixelAt(i, j)[4] = F0

\* C4 (as claimed): a render of a viewport of height 0 does not return
\* normally: the call ends in an error
C4_HeightZeroIsError ==
  (renders > 0 /\ raster.height = 0) => frame.panicked

\* the three projected vertices lie beyond the same border of the pixel grid,
\* which spans [-0.5, width - 0.5] x [-0.5, height - 0.5]
OutsideSameSide ==
  LET v   == Projected(raster)
      vs  == {v.v0, v.v1, v.v2}
      neg == FNeg(FHalf)
  IN \/ \A q \in vs : FLt(q.x, neg)
     \/ \A q \in vs : FLt(FSub(ToF32(raster.width), FHalf), q.x)
     \/ \A q \in vs : FLt(q.y, neg)
     \/ \A q \in vs : FLt(FSub(ToF32(raster.height), FHalf), q.y)

\* the three projected vertices lie a whole pixel or more beyond the same
\* border of the range [0, width-1] x [0, height-1] of pixel indices
FarOutsideSameSide ==
  LET v  == Projected(raster)
      vs == {v.v0, v.v1, v.v2}
  IN \/ \A q \in vs : FLe(q.x, FNeg(F1))
     \/ \A q \in vs : FGe(q.x, ToF32(raster.width))
     \/ \A q \in vs : FLe(q.y, FNeg(F1))
     \/ \A q \in vs : FGe(q.y, ToF32(raster.height))

EmptyBox ==
  LET bb == BoundingBox(raster, Projected(raster))
  IN bb.x_min > bb.x_max \/ bb.y_min > bb.y_max

NothingDrawn ==
  /\ EmptyBox
  /\ frame.visited = 0
  /\ \A i \in Cols : \A j \in Rows : PixelAt(i, j) = Zero4

\* C5 (as claimed): for a triangle whose projected vertices all lie outside
\* the viewport on the same side, the clamped bounding box is empty, the loop
\* makes no iteration and the buffer is all [0,0,0,0]
C5_OutsideDrawsNothing ==
  (renders > 0 /\ PositiveViewport /\ OutsideSameSide) => NothingDrawn

\* C5 (amended): the same for a triangle whose projected vertices all have
\* x <= -1, or all x >= width, or all y <= -1, or all y >= height
C5_FarOutsideDrawsNothing ==
  (renders > 0 /\ PositiveViewport /\ FarOutsideSameSide) =>
    (~frame.panicked /\ NothingDrawn)

\* frames of a triangle a pixel or more to the left, and of one to the right
C5_Witness ==
  /\ renders > 0 /\ PositiveViewport /\ NothingDrawn
  /\ LET v == Projected(raster)
     IN \/ \A q \in {v.v0, v.v1, v.v2} : FLe(q.x, FNeg(F1))
        \/ \A q \in {v.v0, v.v1, v.v2} : FGe(q.x, ToF32(raster.width))

SamePoint ==
  LET v == Projected(raster) IN v.v0 = v.v1 /\ v.v1 = v.v2 /\ ~IsNaN(v.v0.x)

\* the average of the three vertex colours, with alpha 1.0
AverageColor ==
  LET t     == raster.triangle
      third == FDiv(F1, F3)
      c     == Vec3Add(Vec3Add(Vec3Scale(t.v0.color, third),
                               Vec3Scale(t.v1.color, third)),
                       Vec3Scale(t.v2.color, third))
  IN <<c.x, c.y, c.z, F1>>

\* C7: when the three vertices project to the same raster point, the three
\* edge-function values sum to 0 at every pixel, render() divides by no zero
\* total, and every pixel that passes the inside test has the average of the
\* vertex colours (weights 1/3 each) and alpha 1.0
C7_DegenerateFallback ==
  (renders > 0 /\ PositiveViewport /\ SamePoint) =>
    /\ ~frame.divByZero
    /\ ~frame.panicked
    /\ \A i \in Cols : \A j \in Rows :
         /\ Total(Alphas(Projected(raster), i, j)) = F0
         /\ Covered(i, j) => PixelAt(i, j) = AverageColor

\* a frame of three vertices that differ in z only, with a painted pixel
C7_Witness ==
  /\ renders > 0 /\ PositiveViewport /\ SamePoint
  /\ raster.triangle.v0.pos # raster.triangle.v1.pos
  /\ \E i \in Cols : \E j \in Rows :
       Covered(i, j) /\ PixelAt(i, j) = <<FDiv(F1, F3), FDiv(F1, F3), FDiv(F1, F3), F1>>

(***************************************************************************)
(* The claims about project_world_to_raster and edge_function              *)
(***************************************************************************)

\* C8: for a viewport of positive width and height the projection of
\* (x, y, z) is ((x/aspect + 1)/(2/width) - 0.5, (1 - y)/(2/height) - 0.5)
\* with aspect = width/height, whatever z is; for width 800, height 600
\* and the point (0.5, 0.5, 0) it is (549.5, 149.5)
C8_Projection ==
  (projection.called /\ PositiveViewport) =>
    LET w      == ToF32(raster.width)
        h      == ToF32(raster.height)
        aspect == FDiv(w, h)
        p      == projection.point
    IN /\ projection.result.x =
            FSub(FDiv(FAdd(FDiv(p.x, aspect), F1), FDiv(F2, w)), FHalf)
       /\ projection.result.y =
            FSub(FDiv(FSub(F1, p.y), FDiv(F2, h)), FHalf)
       /\ \A z \in {F0, F1, FHalf} :
            ProjectWorldToRaster(raster, [p EXCEPT !.z = z]) = projection.result
       /\ (raster.width = TestWidth /\ raster.height = TestHeight
             /\ p.x = FHalf /\ p.y = FHalf) =>
            projection.result = Vec2(Lit(1099, -1), Lit(299, -1))

\* the projection of the test: (0.5, 0.5, 0) on 800x600 gave (549.5, 149.5)
C8_Witness ==
  /\ projection.called
  /\ raster.width = TestWidth /\ raster.height = TestHeight
  /\ projection.point = Vec3(FHalf, FHalf, F0)
  /\ projection.result = Vec2(Lit(1099, -1), Lit(299, -1))

\* twice the coordinate c of the grid, an integer
Halves(c) == ToI32(FMul(c, F2))

\* the edge function of grid points in exact integer arithmetic, times 4
ExactEdge(v0, v1, point) ==
  (Halves(point.x) - Halves(v0.x)) * (Halves(v1.y) - Halves(v0.y))
    - (Halves(point.y) - Halves(v0.y)) * (Halves(v1.x) - Halves(v0.x))

\* C9: edge_function(v0, v1, point) is
\* (point.x - v0.x)*(v1.y - v0.y) - (point.y - v0.y)*(v1.x - v0.x): positive
\* for a point to the left of the directed edge v0->v1, negative for one to
\* the right (raster space, y downward; on grid points its sign is the sign
\* of the exact value); for v0=(0,0), v1=(1,0) it is positive at (0.5, -0.1)
\* and negative at (0.5, 0.1)
C9_EdgeFunction ==
  edge.called =>
    /\ edge.value =
         FSub(FMul(FSub(edge.point.x, edge.v0.x), FSub(edge.v1.y, edge.v0.y)),
              FMul(FSub(edge.point.y, edge.v0.y), FSub(edge.v1.x, edge.v0.x)))
    /\ ({edge.v0, edge.v1, edge.point} \subseteq GridPoints) =>
         LET exact == ExactEdge(edge.v0, edge.v1, edge.point)
         IN /\ exact > 0 <=> FLt(F0, edge.value)
            /\ exact < 0 <=> FLt(edge.value, F0)
    /\ (edge.v0 = Vec2(F0, F0) /\ edge.v1 = Vec2(F1, F0)) =>
         /\ edge.point = Vec2(FHalf, FNeg(FTenth)) => FLt(F0, edge.value)
         /\ edge.point = Vec2(FHalf, FTenth) => FLt(edge.value, F0)

\* the first call of the test: positive at (0.5, -0.1)
C9_Witness ==
  /\ edge.called
  /\ edge.v0 = Vec2(F0, F0) /\ edge.v1 = Vec2(F1, F0)
  /\ edge.point = Vec2(FHalf, FNeg(FTenth))
  /\ FLt(F0, edge.value)

\* C10: Rasterization::new(4, 4).render() returns 16 pixels, at least one of
\* which differs from [0,0,0,0]
C10_DefaultTriangleVisible ==
  (renders > 0 /\ raster = New(TestDim, TestDim)) =>
    /\ ~frame.panicked
    /\ VecLen(frame.pixels) = 16
    /\ \E k \in 0..(VecLen(frame.pixels) - 1) : VecGet(frame.pixels, k) # Zero4

\* the frame of new(4, 4): pixel (2, 1) is painted
C10_Witness ==
  /\ renders > 0
  /\ raster.width = 4 /\ raster.height = 4
  /\ raster.triangle.v0.pos = Vec3(F0, F0, F0)
  /\ raster.triangle.v1.pos = Vec3(F1, F0, F0)
  /\ raster.triangle.v2.pos = Vec3(F0, F1, F0)
  /\ VecLen(frame.pixels) = 16
  /\ VecGet(frame.pixels, 2 + 1 * 4)[4] = F1

\* C11: update() is a no-op: a call of update() leaves width, height and the
\* triangle as they were, and a render() made after it returns the buffer that
\* the render() before it returned
C11_UpdateIsNoOp ==
  [][(lastOp' = "update") =>
       /\ raster' = raster
       /\ (renders > 0 => Render(raster') = frame)]_vars

\* new(4, 4) was rendered, update() was called, and a render() now returns the
\* frame of before, pixel (2, 1) painted
C11_Witness ==
  /\ lastOp = "update"
  /\ renders > 0
  /\ raster = New(TestDim, TestDim)
  /\ Render(raster) = frame
  /\ PixelAt(2, 1)[4] = F1

\* the clamped bounding box of the projected triangle, render()'s loop ranges
Box == BoundingBox(raster, Projected(raster))

\* C12: for positive width and height and any triangle, every pixel (i, j)
\* that render()'s loop visits has 0 <= i <= width-1 and 0 <= j <= height-1,
\* every index i + j*width lies in [0, width*height), and render() never
\* writes outside the buffer
C12_VisitsInsideBuffer ==
  (renders > 0 /\ PositiveViewport) =>
    /\ ~frame.panicked
    /\ \A i \in Box.x_min..Box.x_max : \A j \in Box.y_min..Box.y_max :
         /\ 0 <= i /\ i <= raster.width - 1
         /\ 0 <= j /\ j <= raster.height - 1
         /\ 0 <= PixelIndex(raster, i, j)
         /\ PixelIndex(raster, i, j) < raster.width * raster.height

\* total at the sample point (i, j) (line 96)
TotalAt(i, j) == Total(Alphas(Projected(raster), i, j))

\* edge_function(v0, v1, v2) of the projected vertices
SignedArea ==
  LET v == Projected(raster) IN EdgeFunction(v.v0, v.v1, v.v2)

\* the sum of the three weights computed at (i, j)
WeightSumAt(i, j) ==
  LET w == Weights(Alphas(Projected(raster), i, j))
  IN FAdd(FAdd(w.a0, w.a1), w.a2)

\* the (1/3, 1/3, 1/3) fallback is taken at every covered pixel or at none
FallbackAllOrNone ==
  \/ \A i \in Cols : \A j \in Rows : Covered(i, j) => FEq(TotalAt(i, j), F0)
  \/ \A i \in Cols : \A j \in Rows : Covered(i, j) => ~FEq(TotalAt(i, j), F0)

\* C13 as stated: within one render(), total = alpha0 + alpha1 + alpha2 is at
\* every covered pixel equal to edge_function(v0, v1, v2) of the projected
\* vertices; when that is not zero the weights of every covered pixel sum to
\* 1; and the fallback is taken at every covered pixel or at none
C13_TotalIsSignedArea ==
  (renders > 0 /\ ~frame.panicked) =>
    /\ \A i \in Cols : \A j \in Rows :
         Covered(i, j) =>
           /\ FEq(TotalAt(i, j), SignedArea)
           /\ (~FEq(SignedArea, F0) => FEq(WeightSumAt(i, j), F1))
    /\ FallbackAllOrNone

\* |a|
FAbs(a) == FMax(a, FNeg(a))

\* 2^-21, four units in the last place of a number in [1, 2)
Tolerance == Lit(1, -21)

\* a is b up to a few roundings: |a - b| <= 2^-21 * |b|
Near(a, b) == FLe(FAbs(FSub(a, b)), FMul(Tolerance, FAbs(b)))

\* C13: with the triangle of new(), within one render() total is at every
\* covered pixel positive and equal, up to f32 rounding, to
\* edge_function(v0, v1, v2) of the projected vertices; the weights of every
\* covered pixel sum to 1 up to f32 rounding, and the fallback is taken at no
\* covered pixel
C13_TotalNearSignedArea ==
  (renders > 0 /\ ~frame.panicked /\ raster.triangle = DefaultTriangle) =>
    \A i \in Cols : \A j \in Rows :
      Covered(i, j) =>
        /\ FLt(F0, TotalAt(i, j))
        /\ Near(TotalAt(i, j), SignedArea)
        /\ Near(WeightSumAt(i, j), F1)

\* new(7, 5) was rendered: at the covered pixel (3, 1) total is not
\* edge_function(v0, v1, v2) but the next f32 above it
C13_Witness ==
  /\ renders > 0
  /\ raster = New(7, 5)
  /\ Covered(3, 1)
  /\ PixelAt(3, 1)[4] = F1
  /\ ~FEq(TotalAt(3, 1), SignedArea)
  /\ Near(TotalAt(3, 1), SignedArea)

(***************************************************************************)
(* The claim about State::resize                                           *)
(***************************************************************************)

Positive(size) == size.width > 0 /\ size.height > 0

ConfigIsSize ==
  state.config.width = state.size.width /\ state.config.height = state.size.height

\* C14: resize(new_size) with new_size.width = 0 or new_size.height = 0
\* changes nothing, otherwise it sets size, config.width and config.height to
\* new_size; so config.width = size.width and config.height = size.height
\* always, and once both dimensions are positive they stay positive
C14_Resize ==
  /\ []ConfigIsSize
  /\ [][(event'.kind = "Resized" /\ ~event'.consumed) =>
          IF Positive(event'.size)
          THEN /\ state'.size = event'.size
               /\ state'.config.width = event'.size.width
               /\ state'.config.height = event'.size.height
          ELSE state' = state]_vars
  /\ [][Positive(state.size) => Positive(state'.size)]_vars

\* a Resized event with width 0 was handled by a State of size 1x2, which
\* kept its size and its config
C14_Witness ==
  /\ event.kind = "Resized" /\ ~event.consumed
  /\ event.size = PhysicalSize(0, 2)
  /\ state.size = PhysicalSize(1, 2)
  /\ state.config = [width |-> 1, height |-> 2]

====
